---- MODULE Spec2Model ----
(***************************************************************************)
(* Model of the model-registration and risk self-assessment application.   *)
(*                                                                         *)
(*   src/app.py       the Streamlit script: session state, the three       *)
(*                    pages, the registration form, the JSON import and    *)
(*                    the export.                                          *)
(*   src/test_app.py  the scoring configuration (RISK_SCORING_TABLE,       *)
(*                    TIER_THRESHOLDS, SCORING_VERSION) and the two        *)
(*                    functions register_model_metadata and                *)
(*                    calculate_inherent_risk.                             *)
(*                                                                         *)
(* Python values that may be None or of a non-string type are tagged       *)
(* records: None, S("text"), I("7").  A dict is a function whose DOMAIN    *)
(* is its key set; an ordered dict whose order matters is a sequence.      *)
(***************************************************************************)
EXTENDS Integers, Sequences, FiniteSets, TLC

VARIABLES
    \* ---- the scoring and normalisation functions, called on their own
    score_input,      \* the model_details passed to calculate_inherent_risk
    tier_thresholds,  \* the tier thresholds passed to it
    calc_outcome,     \* "not_called", "returned" or the name of the error raised
    risk,             \* the dict it returned
    prior_details,    \* the record held before register_model_metadata ran
    raw_details,      \* the raw_details passed to register_model_metadata
    reg_outcome,      \* "not_called" or "returned"
    registered,       \* the dict it returned
    \* ---- st.session_state
    current_page,
    model_registered,
    model_details,
    owner_risk_narrative,
    mitigations_proposed,
    open_questions,
    export_artifact,
    \* ---- widgets and what the last script run showed
    uploaded_artifact,  \* the file held by the "import_uploader" widget
    last_event,         \* the handler that ran last
    error_shown,        \* the fields named by the last st.error of the form
    submitted,          \* required_fields_check of the last submission
    form_values,        \* the values of all the form's widgets at that submission
    touched,            \* the widgets the user changed before it
    passed,             \* the raw_model_details passed to assess_model_risk by it
    owner_risk_narrative_input,  \* the key of the narrative text area
    reimported          \* the record held is the downloaded export, loaded again
                        \* and not edited since

fn_vars == <<score_input, tier_thresholds, calc_outcome, risk,
             prior_details, raw_details, reg_outcome, registered>>

session_vars == <<current_page, model_registered, model_details,
                  owner_risk_narrative, mitigations_proposed, open_questions,
                  export_artifact, uploaded_artifact, last_event, error_shown,
                  submitted, form_values, touched, passed,
                  owner_risk_narrative_input,
                  reimported>>

vars == <<fn_vars, session_vars>>

----------------------------------------------------------------------------
(* Python values *)

None == [t |-> "none"]
S(x) == [t |-> "str", v |-> x]
I(x) == [t |-> "int", v |-> x]      \* an int, x its decimal digits

\* {} : the empty dict
EmptyDict == [k \in {} |-> ""]

\* {**a, **b}
Merge(a, b) ==
    [k \in DOMAIN a \cup DOMAIN b |-> IF k \in DOMAIN b THEN b[k] ELSE a[k]]

\* str(v): "None" for None, the digits for an int, the string itself
PyStr(v) == IF v.t = "none" THEN S("None") ELSE S(v.v)

\* bool(v) of a tagged value: None and "" are falsy (0 is not among the values)
Truthy(v) == v.t # "none" /\ v.v # ""

----------------------------------------------------------------------------
(* Configuration: src/test_app.py lines 9-38 *)

\* factor -> its levels in the dict's key order, each with its points
RISK_SCORING_TABLE ==
    [decision_criticality |->
        << [level |-> "Low", points |-> 1],
           [level |-> "Medium", points |-> 2],
           [level |-> "High", points |-> 3] >>,
     data_sensitivity |->
        << [level |-> "Public", points |-> 1],
           [level |-> "Confidential", points |-> 2],
           [level |-> "Restricted", points |-> 3] >>,
     automation_level |->
        << [level |-> "Manual", points |-> 1],
           [level |-> "Semi-Automated", points |-> 2],
           [level |-> "Fully Automated", points |-> 3] >>,
     regulatory_materiality |->
        << [level |-> "Low", points |-> 1],
           [level |-> "Medium", points |-> 2],
           [level |-> "High", points |-> 3] >>]

\* A threshold table with a gap: score 8 belongs to no tier.
TIER_THRESHOLDS_gap ==
    << [tier |-> "Low", min_score |-> 4, max_score |-> 7,
        description |-> "Minimal oversight needed"],
       [tier |-> "Medium", min_score |-> 9, max_score |-> 10,
        description |-> "Standard oversight needed"],
       [tier |-> "High", min_score |-> 11, max_score |-> 12,
        description |-> "Intensive oversight needed"] >>

\* tier -> {min_score, max_score, description}, in the dict's key order
TIER_THRESHOLDS ==
    << [tier |-> "Low", min_score |-> 4, max_score |-> 7,
        description |-> "Minimal oversight needed"],
       [tier |-> "Medium", min_score |-> 8, max_score |-> 10,
        description |-> "Standard oversight needed"],
       [tier |-> "High", min_score |-> 11, max_score |-> 12,
        description |-> "Intensive oversight needed"] >>

SCORING_VERSION == "1.0"

\* the list of factors calculate_inherent_risk iterates over
factors ==
    << "decision_criticality", "data_sensitivity",
       "automation_level", "regulatory_materiality" >>

Factors == {factors[i] : i \in 1..Len(factors)}

\* risk_table[factor].keys()
LevelsOf(risk_table, factor) ==
    {risk_table[factor][i].level : i \in 1..Len(risk_table[factor])}

\* risk_table[factor][value]['points']
PointsOf(risk_table, factor, value) ==
    LET row == CHOOSE i \in 1..Len(risk_table[factor]) :
                   risk_table[factor][i].level = value
    IN risk_table[factor][row].points

----------------------------------------------------------------------------
(* register_model_metadata: src/test_app.py lines 40-48 *)

DEFAULT_MODEL_ID == S("test_id_123")
FIXED_REGISTERED_AT == "2026-01-28T18:30:00Z"

\* A normaliser that stamps the time and leaves model_id as it came.
register_model_metadata_unidentified(raw) ==
    Merge(raw, [registered_at |-> FIXED_REGISTERED_AT])

\* raw_details.get('model_id', 'test_id_123'): the default only when the key
\* is absent; a key that is present with the value None yields None.
register_model_metadata(raw) ==
    LET model_id == PyStr(IF "model_id" \in DOMAIN raw
                          THEN raw["model_id"] ELSE DEFAULT_MODEL_ID)
    IN Merge(raw, [model_id |-> model_id, registered_at |-> FIXED_REGISTERED_AT])

----------------------------------------------------------------------------
(* calculate_inherent_risk: src/test_app.py lines 50-76 *)

\* `value and value in risk_table[factor]`, value = model_details.get(factor)
Scorable(details, risk_table, factor) ==
    /\ factor \in DOMAIN details
    /\ details[factor] # ""
    /\ details[factor] \in LevelsOf(risk_table, factor)

\* A loop that stops one factor short of the list.
RECURSIVE score_factors_short(_, _, _)
score_factors_short(details, risk_table, n) ==
    IF n <= 1
    THEN [total_score |-> 0, score_breakdown |-> <<>>]
    ELSE LET prev == score_factors_short(details, risk_table, n - 1)
             factor == factors[n - 1]
             value == details[factor]
             points == PointsOf(risk_table, factor, value)
         IN IF Scorable(details, risk_table, factor)
            THEN [total_score |-> prev.total_score + points,
                  score_breakdown |->
                      Append(prev.score_breakdown,
                             [factor |-> factor, value |-> value, points |-> points])]
            ELSE prev

\* the loop over the first n factors: the total and the breakdown, whose
\* entries are in insertion order
RECURSIVE score_factors(_, _, _)
score_factors(details, risk_table, n) ==
    IF n = 0
    THEN [total_score |-> 0, score_breakdown |-> <<>>]
    ELSE LET prev == score_factors(details, risk_table, n - 1)
             factor == factors[n]
             value == details[factor]
             points == PointsOf(risk_table, factor, value)
         IN IF Scorable(details, risk_table, factor)
            THEN [total_score |-> prev.total_score + points,
                  score_breakdown |->
                      Append(prev.score_breakdown,
                             [factor |-> factor, value |-> value, points |-> points])]
            ELSE prev

\* A scan whose upper comparison is strict.
RECURSIVE tier_scan_strict(_, _, _)
tier_scan_strict(thresholds, total_score, i) ==
    IF i > Len(thresholds)
    THEN [proposed_risk_tier |-> "Unknown", proposed_tier_description |-> ""]
    ELSE IF thresholds[i].min_score <= total_score
            /\ total_score < thresholds[i].max_score
         THEN [proposed_risk_tier |-> thresholds[i].tier,
               proposed_tier_description |-> thresholds[i].description]
         ELSE tier_scan_strict(thresholds, total_score, i + 1)

\* the scan of tier_thresholds.items() from entry i on: the first tier whose
\* interval holds the total, else "Unknown" with an empty description
RECURSIVE tier_scan(_, _, _)
tier_scan(thresholds, total_score, i) ==
    IF i > Len(thresholds)
    THEN [proposed_risk_tier |-> "Unknown", proposed_tier_description |-> ""]
    ELSE IF thresholds[i].min_score <= total_score
            /\ total_score <= thresholds[i].max_score
         THEN [proposed_risk_tier |-> thresholds[i].tier,
               proposed_tier_description |-> thresholds[i].description]
         ELSE tier_scan(thresholds, total_score, i + 1)

calculate_inherent_risk(details, risk_table, thresholds, scoring_version) ==
    LET scored == score_factors(details, risk_table, Len(factors))
        tier == tier_scan(thresholds, scored.total_score, 1)
    IN [inherent_risk_score |-> scored.total_score,
        proposed_risk_tier |-> tier.proposed_risk_tier,
        proposed_tier_description |-> tier.proposed_tier_description,
        score_breakdown |-> scored.score_breakdown,
        scoring_version |-> scoring_version]

\* The function has no raise statement: every call returns.
calculate_inherent_risk_outcome(details, risk_table, thresholds) == "returned"

----------------------------------------------------------------------------
(* Session state initialisation: src/app.py lines 168-185 *)

page_options ==
    << "1) Model Registration", "2) Risk Score Preview", "3) Narrative & Export" >>

\* no file in the uploader (file_uploader returns None)
NoFile == [present |-> FALSE, parses |-> FALSE, content |-> EmptyDict]

SessionInit ==
    /\ current_page = page_options[1]
    /\ model_registered = FALSE
    /\ model_details = EmptyDict
    /\ owner_risk_narrative = ""
    /\ mitigations_proposed = ""
    /\ open_questions = ""
    /\ export_artifact = EmptyDict
    /\ uploaded_artifact = NoFile
    /\ last_event = "init"
    /\ error_shown = <<>>
    /\ submitted = EmptyDict
    /\ form_values = EmptyDict
    /\ touched = {}
    /\ passed = EmptyDict
    /\ owner_risk_narrative_input = ""
    /\ reimported = FALSE

----------------------------------------------------------------------------
(* The inputs the scoring function is called on, on its own *)

\* a level no factor of the table knows
UnknownLevel == "Critical"
\* marks a factor whose key the record does not hold
AbsentKey == "<absent>"

AllLevels == UNION {LevelsOf(RISK_SCORING_TABLE, f) : f \in Factors}

\* records holding, per factor, a level of the table, an unknown level or no key
ScoreInputs ==
    LET choices == {c \in [Factors -> AllLevels \cup {UnknownLevel, AbsentKey}] :
                       \A f \in Factors :
                           c[f] \in LevelsOf(RISK_SCORING_TABLE, f)
                                       \cup {UnknownLevel, AbsentKey}}
    IN {[f \in {g \in Factors : c[g] # AbsentKey} |-> c[f]] : c \in choices}

\* thresholds left behind by a table that once stopped at 10 points
TIER_THRESHOLDS_stale == SubSeq(TIER_THRESHOLDS, 1, 2)

ThresholdConfigs == {TIER_THRESHOLDS, TIER_THRESHOLDS_stale}

----------------------------------------------------------------------------
(* The registration form: src/app.py lines 230-299 *)

\* The option lists imported from source.py; the values are those the tests
\* select and pre-load.
DOMAIN_OPTIONS == << "Operations Efficiency", "Fraud Detection" >>
MODEL_TYPE_OPTIONS == << "ML classifier (time-series)", "Regression" >>
DEPLOYMENT_MODE_OPTIONS == << "Real-time", "Batch" >>

stage_opts ==
    << "Proof of Concept", "Development", "Pre-Production", "Production", "Retired" >>

\* list(RISK_SCORING_TABLE[factor].keys())
level_opts(factor) ==
    [i \in 1..Len(RISK_SCORING_TABLE[factor]) |-> RISK_SCORING_TABLE[factor][i].level]

Range(seq) == {seq[i] : i \in 1..Len(seq)}

\* the keys of model_details whose value may be None or of another type
TaggedKeys ==
    {"model_id", "owner_team", "model_stage", "deployment_region",
     "mitigations_proposed", "open_questions"}

\* details.get(key), as a tagged value
Held(details, key) ==
    IF key \notin DOMAIN details THEN None
    ELSE IF key \in TaggedKeys THEN details[key]
    ELSE S(details[key])

\* A helper that takes the last option when the stored value is not offered.
get_idx_last(options, details, key) ==
    IF Held(details, key).t = "str" /\ Held(details, key).v \in Range(options)
    THEN (CHOOSE i \in 1..Len(options) : options[i] = Held(details, key).v) - 1
    ELSE Len(options) - 1

\* get_idx, and the same expression written inline for domain, model_type,
\* deployment_mode and model_stage: the index of the stored value, else 0
get_idx(options, details, key) ==
    IF Held(details, key).t = "str" /\ Held(details, key).v \in Range(options)
    THEN (CHOOSE i \in 1..Len(options) : options[i] = Held(details, key).v) - 1
    ELSE 0

SelectOptions ==
    [domain |-> DOMAIN_OPTIONS,
     model_type |-> MODEL_TYPE_OPTIONS,
     deployment_mode |-> DEPLOYMENT_MODE_OPTIONS,
     model_stage |-> stage_opts,
     decision_criticality |-> level_opts("decision_criticality"),
     data_sensitivity |-> level_opts("data_sensitivity"),
     automation_level |-> level_opts("automation_level"),
     regulatory_materiality |-> level_opts("regulatory_materiality")]

TextFields == {"model_name", "owner_team", "business_use", "deployment_region"}

FormFields == TextFields \cup DOMAIN SelectOptions

\* what a widget of the form shows before the user touches it: a text input
\* shows details.get(key, ''), a selectbox the option at its index
Prefilled(details, field) ==
    IF field \in TextFields
    THEN (IF Held(details, field).t = "str" THEN Held(details, field).v ELSE "")
    ELSE SelectOptions[field][get_idx(SelectOptions[field], details, field) + 1]

\* the values of the widgets at submission: what the user entered (fill),
\* the pre-filled value elsewhere
FormValues(details, fill) ==
    [field \in FormFields |->
        IF field \in DOMAIN fill THEN fill[field] ELSE Prefilled(details, field)]

----------------------------------------------------------------------------
(* The submit handler: src/app.py lines 301-350 *)

\* the keys of required_fields_check, in the dict's order
RequiredChecked ==
    << "model_name", "business_use", "domain", "model_type",
       "decision_criticality", "data_sensitivity", "automation_level",
       "regulatory_materiality", "deployment_mode" >>

required_fields_check(form) ==
    [field \in Range(RequiredChecked) |-> form[field]]

\* A check that leaves business_use out.
missing_fields_partial(form) ==
    SelectSeq(RequiredChecked,
              LAMBDA field : field # "business_use" /\ form[field] = "")

\* [field for field, value in required_fields_check.items() if not value]
missing_fields(form) ==
    SelectSeq(RequiredChecked, LAMBDA field : form[field] = "")

\* A conversion that keeps the empty text.
OrNone_keep(text) == S(text)

\* x if x else None
OrNone(text) == IF text # "" THEN S(text) ELSE None

raw_model_details(form, details) ==
    [model_name |-> form["model_name"],
     business_use |-> form["business_use"],
     domain |-> form["domain"],
     model_type |-> form["model_type"],
     decision_criticality |-> form["decision_criticality"],
     data_sensitivity |-> form["data_sensitivity"],
     automation_level |-> form["automation_level"],
     deployment_mode |-> form["deployment_mode"],
     regulatory_materiality |-> form["regulatory_materiality"],
     owner_team |-> OrNone(form["owner_team"]),
     model_stage |-> OrNone(form["model_stage"]),
     deployment_region |-> OrNone(form["deployment_region"]),
     model_id |-> Held(details, "model_id")]

\* source.py is not among the sources: REQUIRED_FIELDS and assess_model_risk
\* follow the specification (normalise, then score with the configuration;
\* ValueError when a required attribute is absent or empty).
REQUIRED_FIELDS == Range(RequiredChecked)

assess_model_risk_raises(raw) ==
    \E field \in REQUIRED_FIELDS : field \notin DOMAIN raw \/ raw[field] = ""

assess_model_risk(raw) ==
    LET details == register_model_metadata(raw)
    IN Merge(details,
             calculate_inherent_risk(details, RISK_SCORING_TABLE,
                                     TIER_THRESHOLDS, SCORING_VERSION))

----------------------------------------------------------------------------
(* The import handler: src/app.py lines 352-394 *)

EXPORT_FORMAT_VERSION == "lab1_export_v1"

\* A validation that asks for a model_id and takes any model_name.
import_verdict_nameless(file) ==
    IF ~file.present THEN "no_file"
    ELSE IF ~file.parses THEN "could_not_read"
    ELSE IF Held(file.content, "export_format_version") # S(EXPORT_FORMAT_VERSION)
         THEN "version_mismatch"
    ELSE IF ~Truthy(Held(file.content, "model_id"))
         THEN "missing_id_or_name"
    ELSE "loaded"

\* A validation that checks the format version only.
import_verdict_lax(file) ==
    IF ~file.present THEN "no_file"
    ELSE IF ~file.parses THEN "could_not_read"
    ELSE IF Held(file.content, "export_format_version") # S(EXPORT_FORMAT_VERSION)
         THEN "version_mismatch"
    ELSE "loaded"

\* the branch the handler takes on the uploaded file
import_verdict(file) ==
    IF ~file.present THEN "no_file"
    ELSE IF ~file.parses THEN "could_not_read"
    ELSE IF Held(file.content, "export_format_version") # S(EXPORT_FORMAT_VERSION)
         THEN "version_mismatch"
    ELSE IF ~Truthy(Held(file.content, "model_id"))
            \/ ~Truthy(Held(file.content, "model_name"))
         THEN "missing_id_or_name"
    ELSE "loaded"

\* _safe_get(imported, key, "") or ""
TextOrEmpty(imported, key) ==
    IF Truthy(Held(imported, key)) THEN Held(imported, key).v ELSE ""

\* A handler that loads the record and leaves the registration flag alone.
import_handler_unflagged(ss, file) ==
    IF import_verdict(file) = "loaded"
    THEN [ss EXCEPT !.model_details = file.content,
                    !.owner_risk_narrative =
                        TextOrEmpty(file.content, "owner_risk_narrative"),
                    !.mitigations_proposed =
                        TextOrEmpty(file.content, "mitigations_proposed"),
                    !.open_questions =
                        TextOrEmpty(file.content, "open_questions")]
    ELSE ss

\* the session state (a record of its keys) after the handler ran on the file
import_handler(ss, file) ==
    IF import_verdict(file) = "loaded"
    THEN [ss EXCEPT !.model_details = file.content,
                    !.model_registered = TRUE,
                    !.owner_risk_narrative =
                        TextOrEmpty(file.content, "owner_risk_narrative"),
                    !.mitigations_proposed =
                        TextOrEmpty(file.content, "mitigations_proposed"),
                    !.open_questions =
                        TextOrEmpty(file.content, "open_questions")]
    ELSE ss

----------------------------------------------------------------------------
(* The Narrative & Export page: src/app.py lines 464-546 *)

narrative_min_length == 50

\* lines 475-497: the three text areas are read into the session state.  The
\* narrative area is bound to the key owner_risk_narrative_input, which the
\* script initialises to "" (lines 178-179); the other two have no value of
\* their own before they are first drawn and show the session's value.
\* A page that scores the held record again under the current table.
render_narrative_page_rescoring(ss, narrative_input) ==
    IF ss.model_registered
    THEN [ss EXCEPT !.owner_risk_narrative = narrative_input,
                    !.model_details =
                        Merge(ss.model_details,
                              calculate_inherent_risk(ss.model_details,
                                                      RISK_SCORING_TABLE,
                                                      TIER_THRESHOLDS,
                                                      SCORING_VERSION))]
    ELSE ss

render_narrative_page(ss, narrative_input) ==
    IF ss.model_registered
    THEN [ss EXCEPT !.owner_risk_narrative = narrative_input]
    ELSE ss

\* lines 511-519
export_data(ss) ==
    Merge(ss.model_details,
          [owner_risk_narrative |-> ss.owner_risk_narrative,
           mitigations_proposed |-> OrNone(ss.mitigations_proposed),
           open_questions |-> OrNone(ss.open_questions),
           export_format_version |-> EXPORT_FORMAT_VERSION])

\* A button that looks at the registration only.
download_button_disabled_unregistered(ss) == ~ss.model_registered

\* lines 533: not model_registered or not is_narrative_valid
download_button_disabled(ss) ==
    ~ss.model_registered \/ ~(Len(ss.owner_risk_narrative) >= narrative_min_length)

\* What one run of the script draws below the sidebar, ss being the session
\* state the run ends with; export_pressed: the run is the one in which
\* "Export Model Registration Artifact" was pressed.
rendered(ss, export_pressed) ==
    IF ss.current_page = page_options[1]
    THEN {"registration_form", "import_uploader"}
    ELSE IF ~ss.model_registered
    THEN {"register_first_warning"}
    ELSE IF ss.current_page = page_options[2]
    THEN {"inherent_risk_score", "proposed_risk_tier", "scoring_table",
          "tier_thresholds"}
         \cup (IF "score_breakdown" \in DOMAIN ss.model_details
                  /\ ss.model_details["score_breakdown"] # <<>>
               THEN {"score_breakdown", "bar_chart"}
               ELSE {"no_breakdown_info"})
    ELSE {"owner_risk_narrative_input", "mitigations_proposed_input",
          "open_questions_input", "export_button"}
         \cup (IF Len(ss.owner_risk_narrative) >= narrative_min_length
               THEN {} ELSE {"length_warning"})
         \cup (IF ~export_pressed THEN {}
               ELSE {"risk_report", "json_preview"}
                    \cup (IF download_button_disabled(ss)
                          THEN {"download_disabled", "download_info"}
                          ELSE {"download_enabled"}))

----------------------------------------------------------------------------
(* One user session: each action is one run of the script *)

session_state ==
    [current_page |-> current_page,
     model_registered |-> model_registered,
     model_details |-> model_details,
     owner_risk_narrative |-> owner_risk_narrative,
     mitigations_proposed |-> mitigations_proposed,
     open_questions |-> open_questions,
     export_artifact |-> export_artifact]

Store(ss) ==
    /\ current_page' = ss.current_page
    /\ model_registered' = ss.model_registered
    /\ model_details' = ss.model_details
    /\ owner_risk_narrative' = ss.owner_risk_narrative
    /\ mitigations_proposed' = ss.mitigations_proposed
    /\ open_questions' = ss.open_questions
    /\ export_artifact' = ss.export_artifact

\* ---- what the modelled user enters

ModelNameText == "Test Model v1.0"
BusinessUseText == "This model predicts equipment failures."

\* the fields the user changes before pressing the submit button
FormFills ==
    { EmptyDict,
      [model_name |-> ModelNameText],
      [model_name |-> ModelNameText, business_use |-> BusinessUseText],
      [model_name |-> ""],
      [business_use |-> ""],
      [model_name |-> ModelNameText, domain |-> "Operations Efficiency",
       model_type |-> "ML classifier (time-series)",
       deployment_mode |-> "Real-time", owner_team |-> "Test Team",
       business_use |-> BusinessUseText, model_stage |-> "Production",
       deployment_region |-> "North America",
       decision_criticality |-> "High", data_sensitivity |-> "Restricted",
       automation_level |-> "Fully Automated",
       regulatory_materiality |-> "High"] }

\* ---- the files the modelled user uploads

\* an envelope as the export step writes it
ExportedEnvelope ==
    [model_name |-> ModelNameText,
     business_use |-> BusinessUseText,
     domain |-> "Fraud Detection",
     model_type |-> "Regression",
     decision_criticality |-> "Medium",
     data_sensitivity |-> "Confidential",
     automation_level |-> "Semi-Automated",
     deployment_mode |-> "Batch",
     regulatory_materiality |-> "Low",
     owner_team |-> S("Data Science"),
     model_stage |-> S("Development"),
     deployment_region |-> None,
     model_id |-> S("test-model-x-123"),
     registered_at |-> "2023-01-01T12:00:00Z",
     inherent_risk_score |-> 7,
     proposed_risk_tier |-> "Low",
     proposed_tier_description |-> "Minimal oversight needed",
     score_breakdown |->
         << [factor |-> "decision_criticality", value |-> "Medium", points |-> 2],
            [factor |-> "data_sensitivity", value |-> "Confidential", points |-> 2],
            [factor |-> "automation_level", value |-> "Semi-Automated", points |-> 2],
            [factor |-> "regulatory_materiality", value |-> "Low", points |-> 1] >>,
     scoring_version |-> "1.0",
     owner_risk_narrative |->
         "This narrative is exactly fifty characters long...",
     mitigations_proposed |-> S("Enhanced monitoring"),
     open_questions |-> None,
     export_format_version |-> EXPORT_FORMAT_VERSION]

JsonFile(content) == [present |-> TRUE, parses |-> TRUE, content |-> content]

\* files the import accepts: an exported envelope, and one written by another
\* tool under a table that had the level "Critical", its model_id a JSON number
ValidFiles ==
    { JsonFile(ExportedEnvelope),
      JsonFile([ExportedEnvelope EXCEPT !["model_id"] = I("7"),
                                        !["decision_criticality"] = UnknownLevel,
                                        !["scoring_version"] = "0.9"]) }

\* files the import rejects
InvalidFiles ==
    { [present |-> TRUE, parses |-> FALSE, content |-> EmptyDict],
      JsonFile([ExportedEnvelope EXCEPT !["export_format_version"] = "lab0_export"]),
      JsonFile([ExportedEnvelope EXCEPT !["model_id"] = None]),
      JsonFile([ExportedEnvelope EXCEPT !["model_name"] = ""]),
      JsonFile([k \in DOMAIN ExportedEnvelope \ {"model_id"} |-> ExportedEnvelope[k]]) }

UploadFiles == ValidFiles \cup InvalidFiles

\* ---- the actions

\* "Register Model & Assess Risk" is pressed on the registration page.
Submit(fill) ==
    /\ current_page = page_options[1]
    /\ LET form == FormValues(model_details, fill)
           raw == raw_model_details(form, model_details)
       IN /\ submitted' = required_fields_check(form)
          /\ form_values' = form
          /\ touched' = DOMAIN fill
          /\ IF missing_fields(form) # <<>>
             THEN \* st.error; the script goes on to the import tab
                  /\ passed' = EmptyDict
                  /\ reimported' = reimported
                  /\ error_shown' = missing_fields(form)
                  /\ last_event' = "submit_missing"
                  /\ Store(import_handler(session_state, uploaded_artifact))
                  /\ UNCHANGED uploaded_artifact
             ELSE IF assess_model_risk_raises(raw)
             THEN \* except ValueError: st.error, st.info
                  /\ passed' = raw
                  /\ reimported' = reimported
                  /\ error_shown' = <<>>
                  /\ last_event' = "submit_value_error"
                  /\ Store(import_handler(session_state, uploaded_artifact))
                  /\ UNCHANGED uploaded_artifact
             ELSE \* the record is stored and st.rerun() draws page 2, where
                  \* the uploader is not drawn and loses its file
                  /\ passed' = raw
                  /\ reimported' = FALSE
                  /\ error_shown' = <<>>
                  /\ last_event' = "submit_ok"
                  /\ Store([session_state EXCEPT
                                !.model_details = assess_model_risk(raw),
                                !.model_registered = TRUE,
                                !.current_page = page_options[2]])
                  /\ uploaded_artifact' = NoFile
    /\ UNCHANGED <<fn_vars, owner_risk_narrative_input>>

\* the file the download button of the last export handed out: the button is
\* enabled when the exported narrative has the minimum length (line 533)
DownloadedFiles ==
    IF export_artifact # EmptyDict
       /\ Len(export_artifact["owner_risk_narrative"]) >= narrative_min_length
    THEN {JsonFile(export_artifact)}
    ELSE {}

\* A file is put into the uploader of the import tab.
Upload(file) ==
    /\ current_page = page_options[1]
    /\ file # uploaded_artifact
    /\ uploaded_artifact' = file
    /\ Store(import_handler(session_state, file))
    /\ last_event' = IF import_verdict(file) = "loaded"
                     THEN "import_ok" ELSE "import_rejected"
    /\ reimported' = IF import_verdict(file) = "loaded"
                     THEN file \in DownloadedFiles ELSE reimported
    /\ error_shown' = <<>>
    /\ submitted' = EmptyDict
    /\ form_values' = EmptyDict
    /\ touched' = {}
    /\ passed' = EmptyDict
    /\ UNCHANGED <<fn_vars, owner_risk_narrative_input>>

\* The file downloaded after the last export is put into the uploader.
UploadDownloaded == \E file \in DownloadedFiles : Upload(file)

\* The file is removed from the uploader.
RemoveFile ==
    /\ current_page = page_options[1]
    /\ uploaded_artifact # NoFile
    /\ uploaded_artifact' = NoFile
    /\ last_event' = "file_removed"
    /\ error_shown' = <<>>
    /\ submitted' = EmptyDict
    /\ form_values' = EmptyDict
    /\ touched' = {}
    /\ passed' = EmptyDict
    /\ UNCHANGED <<fn_vars, owner_risk_narrative_input, current_page,
                   model_registered, model_details, owner_risk_narrative,
                   mitigations_proposed, open_questions, export_artifact,
                   reimported>>

\* "Go to Risk Score Preview", offered after a file was loaded.
GoToPreview ==
    /\ current_page = page_options[1]
    /\ import_verdict(uploaded_artifact) = "loaded"
    /\ Store([import_handler(session_state, uploaded_artifact)
                  EXCEPT !.current_page = page_options[2]])
    /\ uploaded_artifact' = NoFile
    /\ last_event' = "navigate"
    /\ error_shown' = <<>>
    /\ submitted' = EmptyDict
    /\ form_values' = EmptyDict
    /\ touched' = {}
    /\ passed' = EmptyDict
    /\ UNCHANGED <<fn_vars, owner_risk_narrative_input, reimported>>

\* Another page is chosen in the sidebar.  A widget that is not drawn loses
\* its state: the uploader its file, the narrative area its text (the key is
\* then initialised to "" again).
Navigate(page) ==
    /\ page # current_page
    /\ LET ss == [session_state EXCEPT !.current_page = page]
       IN IF page = page_options[3]
          THEN Store(render_narrative_page(ss, ""))
          ELSE Store(ss)
    /\ owner_risk_narrative_input' = ""
    /\ uploaded_artifact' = NoFile
    /\ last_event' = "navigate"
    /\ error_shown' = <<>>
    /\ submitted' = EmptyDict
    /\ form_values' = EmptyDict
    /\ touched' = {}
    /\ passed' = EmptyDict
    /\ UNCHANGED <<fn_vars, reimported>>

\* ---- what the modelled user types on the Narrative & Export page

\* the empty text, one of 49 characters and one of 50
NarrativeTexts ==
    { "",
      "This narrative is one character short of fifty...",
      "This narrative is exactly fifty characters long..." }

\* the optional text area the modelled user changes, and what is typed
OptionalTexts ==
    [mitigations_proposed |-> {"", "Enhanced monitoring"}]

\* The owner's narrative is typed into its text area.
EditNarrative(text) ==
    /\ current_page = page_options[3]
    /\ model_registered
    /\ text # owner_risk_narrative_input
    /\ owner_risk_narrative_input' = text
    /\ Store(render_narrative_page(session_state, text))
    /\ last_event' = "edit_narrative"
    /\ reimported' = FALSE
    /\ error_shown' = <<>>
    /\ submitted' = EmptyDict
    /\ form_values' = EmptyDict
    /\ touched' = {}
    /\ passed' = EmptyDict
    /\ UNCHANGED <<fn_vars, uploaded_artifact>>

\* One of the two optional text areas is changed.
EditOptional(key, text) ==
    /\ current_page = page_options[3]
    /\ model_registered
    /\ text # session_state[key]
    /\ Store(render_narrative_page([session_state EXCEPT ![key] = text],
                                   owner_risk_narrative_input))
    /\ last_event' = "edit_optional"
    /\ reimported' = FALSE
    /\ error_shown' = <<>>
    /\ submitted' = EmptyDict
    /\ form_values' = EmptyDict
    /\ touched' = {}
    /\ passed' = EmptyDict
    /\ UNCHANGED <<fn_vars, uploaded_artifact, owner_risk_narrative_input>>

\* "Export Model Registration Artifact" is pressed.
Export ==
    /\ current_page = page_options[3]
    /\ model_registered
    /\ LET ss == render_narrative_page(session_state, owner_risk_narrative_input)
       IN Store([ss EXCEPT !.export_artifact = export_data(ss)])
    /\ last_event' = "export"
    /\ reimported' = (reimported /\ export_artifact' = export_artifact)
    /\ error_shown' = <<>>
    /\ submitted' = EmptyDict
    /\ form_values' = EmptyDict
    /\ touched' = {}
    /\ passed' = EmptyDict
    /\ UNCHANGED <<fn_vars, uploaded_artifact, owner_risk_narrative_input>>

Next ==
    \/ \E text \in NarrativeTexts : EditNarrative(text)
    \/ \E key \in DOMAIN OptionalTexts :
           \E text \in OptionalTexts[key] : EditOptional(key, text)
    \/ Export
    \/ \E fill \in FormFills : Submit(fill)
    \/ \E file \in UploadFiles : Upload(file)
    \/ UploadDownloaded
    \/ RemoveFile
    \/ GoToPreview
    \/ \E page \in Range(page_options) : Navigate(page)

\* the functions are not called on their own in a session
FnIdle ==
    /\ score_input = EmptyDict
    /\ tier_thresholds = TIER_THRESHOLDS
    /\ calc_outcome = "not_called"
    /\ risk = EmptyDict
    /\ prior_details = EmptyDict
    /\ raw_details = EmptyDict
    /\ reg_outcome = "not_called"
    /\ registered = EmptyDict

Init == FnIdle /\ SessionInit

Spec == Init /\ [][Next]_vars

----------------------------------------------------------------------------
(* The two functions called on their own, on inputs drawn from bounded sets *)

\* the records a form is submitted over: none, or one loaded from a file
PriorRecords == {EmptyDict} \cup {file.content : file \in ValidFiles}

\* the fills that leave no required field empty
CompleteFills ==
    {fill \in FormFills :
        \A prior \in PriorRecords : missing_fields(FormValues(prior, fill)) = <<>>}

FnInputs ==
    /\ score_input \in ScoreInputs
    /\ tier_thresholds \in ThresholdConfigs
    /\ calc_outcome = "not_called"
    /\ risk = EmptyDict
    /\ prior_details \in PriorRecords
    /\ raw_details = EmptyDict
    /\ reg_outcome = "not_called"
    /\ registered = EmptyDict

FnInit == FnInputs /\ SessionInit

CallCalculate ==
    /\ calc_outcome = "not_called"
    /\ calc_outcome' =
           calculate_inherent_risk_outcome(score_input, RISK_SCORING_TABLE,
                                           tier_thresholds)
    /\ risk' = calculate_inherent_risk(score_input, RISK_SCORING_TABLE,
                                       tier_thresholds, SCORING_VERSION)
    /\ UNCHANGED <<score_input, tier_thresholds, prior_details, raw_details,
                   reg_outcome, registered, session_vars>>

\* The raw input the form builds over the record held so far (the one given
\* at first, then the one the last call returned) is normalised.
CallRegister(fill) ==
    /\ LET held == IF reg_outcome = "returned" THEN registered ELSE prior_details
           raw == raw_model_details(FormValues(held, fill), held)
       IN /\ prior_details' = held
          /\ raw_details' = raw
          /\ registered' = register_model_metadata(raw)
    /\ reg_outcome' = "returned"
    /\ UNCHANGED <<score_input, tier_thresholds, calc_outcome, risk, session_vars>>

FnNext ==
    \/ CallCalculate
    \/ \E fill \in CompleteFills : CallRegister(fill)

FnSpec == FnInit /\ [][FnNext]_vars

----------------------------------------------------------------------------
(* Claims about the scoring function and the normaliser (under FnSpec) *)

\* every factor of the record holds a level of the scoring table
ValidSelection(details) ==
    \A f \in Factors :
        f \in DOMAIN details /\ details[f] \in LevelsOf(RISK_SCORING_TABLE, f)

\* the four configured points of a valid selection, added up
ConfiguredSum(details) ==
    PointsOf(RISK_SCORING_TABLE, "decision_criticality", details["decision_criticality"])
    + PointsOf(RISK_SCORING_TABLE, "data_sensitivity", details["data_sensitivity"])
    + PointsOf(RISK_SCORING_TABLE, "automation_level", details["automation_level"])
    + PointsOf(RISK_SCORING_TABLE, "regulatory_materiality", details["regulatory_materiality"])

\* the tiers of a threshold table whose interval holds the score
TiersHolding(thresholds, score) ==
    {i \in 1..Len(thresholds) :
        thresholds[i].min_score <= score /\ score <= thresholds[i].max_score}

\* every total one level per factor can add up to
AchievableTotals ==
    {ConfiguredSum(c) : c \in {d \in ScoreInputs : ValidSelection(d)}}

\* C1: for every valid selection of the four levels, the returned
\* inherent_risk_score is the sum of the four configured points.
C1_ScoreIsSumOfPoints ==
    (calc_outcome = "returned" /\ ValidSelection(score_input))
        => risk.inherent_risk_score = ConfiguredSum(score_input)

\* C1 witness: High / Restricted / Fully Automated / High was scored, as 12.
C1_Witness ==
    /\ calc_outcome = "returned"
    /\ score_input = [decision_criticality |-> "High",
                      data_sensitivity |-> "Restricted",
                      automation_level |-> "Fully Automated",
                      regulatory_materiality |-> "High"]
    /\ risk.inherent_risk_score = 12

\* the tier the example thresholds give a total, as the claim lists them
ExampleTier(score) ==
    IF score \in 4..7 THEN "Low"
    ELSE IF score \in 8..10 THEN "Medium"
    ELSE IF score \in 11..12 THEN "High"
    ELSE "Unknown"

\* C2: under the example thresholds the tier depends on the total alone:
\* 4..7 is "Low", 8..10 "Medium", 11..12 "High", and no total in 4..12 is
\* "Unknown"; this holds of every call that returned and of every total.
C2_TierIsFunctionOfTotal ==
    /\ (calc_outcome = "returned" /\ tier_thresholds = TIER_THRESHOLDS
        /\ risk.inherent_risk_score \in 4..12)
           => /\ risk.proposed_risk_tier = ExampleTier(risk.inherent_risk_score)
              /\ risk.proposed_risk_tier # "Unknown"
    /\ \A total \in 4..12 :
           tier_scan(TIER_THRESHOLDS, total, 1).proposed_risk_tier
               = ExampleTier(total)

\* C2 witness: a total of 10, the upper end of "Medium", was tiered.
C2_Witness ==
    /\ calc_outcome = "returned"
    /\ tier_thresholds = TIER_THRESHOLDS
    /\ risk.inherent_risk_score = 10
    /\ risk.proposed_risk_tier = "Medium"

\* C3: the configured thresholds are contiguous and do not overlap (each
\* min_score is the previous max_score + 1, min_score <= max_score), and
\* every achievable total, and every total a valid selection was scored
\* as, lies in the interval of exactly one tier.
C3_ThresholdsPartitionTotals ==
    /\ \A i \in 1..Len(TIER_THRESHOLDS) :
           /\ TIER_THRESHOLDS[i].min_score <= TIER_THRESHOLDS[i].max_score
           /\ i > 1 => TIER_THRESHOLDS[i].min_score
                           = TIER_THRESHOLDS[i - 1].max_score + 1
    /\ \A total \in AchievableTotals :
           Cardinality(TiersHolding(TIER_THRESHOLDS, total)) = 1
    /\ (calc_outcome = "returned" /\ ValidSelection(score_input))
           => Cardinality(TiersHolding(TIER_THRESHOLDS,
                                       risk.inherent_risk_score)) = 1

\* C3 witness: a valid selection was scored as 8, the first total of "Medium".
C3_Witness ==
    /\ calc_outcome = "returned"
    /\ ValidSelection(score_input)
    /\ risk.inherent_risk_score = 8
    /\ TiersHolding(TIER_THRESHOLDS, risk.inherent_risk_score) = {2}

\* C4 (as claimed): a call on a record whose level for some factor is not a
\* key of the table fails with UnknownCategoryError, and never returns a
\* record in which that factor is left out of the breakdown and the total.
C4_UnknownLevelRaises ==
    \A f \in Factors :
        (/\ calc_outcome # "not_called"
         /\ f \in DOMAIN score_input
         /\ score_input[f] \notin LevelsOf(RISK_SCORING_TABLE, f))
            => /\ calc_outcome = "UnknownCategoryError"
               /\ ~(/\ calc_outcome = "returned"
                    /\ \A i \in 1..Len(risk.score_breakdown) :
                           risk.score_breakdown[i].factor # f)

\* C5 (as claimed): a call whose total lies in no configured tier interval
\* fails with UnscoredRangeError, and never returns the tier "Unknown" with
\* an empty description.
C5_UnscoredRangeRaises ==
    (/\ calc_outcome # "not_called"
     /\ TiersHolding(tier_thresholds,
                     score_factors(score_input, RISK_SCORING_TABLE,
                                   Len(factors)).total_score) = {})
        => /\ calc_outcome = "UnscoredRangeError"
           /\ ~(/\ calc_outcome = "returned"
                /\ risk.proposed_risk_tier = "Unknown"
                /\ risk.proposed_tier_description = "")

\* C7 (as claimed): normalisation keeps the identifier the held record
\* carries verbatim and generates one otherwise; the raw input of a first
\* registration, whose model_id is None, ends with a generated identifier
\* and not with one derived from None.
C7_IdPreservedOrGenerated ==
    reg_outcome = "returned"
        => IF Truthy(Held(prior_details, "model_id"))
           THEN registered["model_id"] = prior_details["model_id"]
           ELSE /\ registered["model_id"] = DEFAULT_MODEL_ID
                /\ registered["model_id"] # PyStr(None)

\* C8 (as claimed): normalising the form's input over a record that already
\* has a creation timestamp (from an earlier normalisation in the session or
\* from an imported artifact) leaves that timestamp as it was.
C8_TimestampAssignedOnce ==
    (reg_outcome = "returned" /\ "registered_at" \in DOMAIN prior_details)
        => registered["registered_at"] = prior_details["registered_at"]

----------------------------------------------------------------------------
(* Claims about a session (under Spec) *)

\* the last run of the script handled a press of the submit button
SubmitRan(event) ==
    event \in {"submit_missing", "submit_ok", "submit_value_error"}

\* the required fields a submitted form left empty
EmptyRequired(check) == {field \in DOMAIN check : check[field] = ""}

\* C6: a submission with a required field empty shows an error naming
\* exactly the empty required fields and produces no scored record:
\* model_registered and model_details are as before and the page is still
\* '1) Model Registration'; a submission with none empty shows no such error.
C6_MissingFieldsRejected ==
    [][SubmitRan(last_event') =>
          IF EmptyRequired(submitted') # {}
          THEN /\ last_event' = "submit_missing"
               /\ Range(error_shown') = EmptyRequired(submitted')
               /\ Len(error_shown') = Cardinality(EmptyRequired(submitted'))
               /\ model_registered' = model_registered
               /\ model_details' = model_details
               /\ current_page' = page_options[1]
          ELSE last_event' # "submit_missing"]_vars

\* C6 witness: a form with only business_use empty was submitted in a
\* session with no registered model, and the error names business_use.
C6_Witness ==
    /\ last_event = "submit_missing"
    /\ submitted["model_name"] # ""
    /\ error_shown = << "business_use" >>
    /\ ~model_registered
    /\ model_details = EmptyDict
    /\ current_page = page_options[1]

----------------------------------------------------------------------------
(* Claims about export and import (under Spec) *)

\* the identifier, the creation timestamp and the categorical selections
RoundTripKeys ==
    {"model_id", "registered_at", "domain", "model_type", "deployment_mode"}
        \cup Factors

\* C11: export followed by import is a round trip: once the downloaded
\* envelope is loaded again, model_details holds the exported model_id,
\* creation timestamp and categorical selections, and exporting again
\* without an edit stores an envelope equal to the first one.
C11_ExportImportRoundTrip ==
    [][/\ reimported'
           => \A k \in RoundTripKeys \cap DOMAIN export_artifact' :
                  /\ k \in DOMAIN model_details'
                  /\ model_details'[k] = export_artifact'[k]
       /\ (reimported /\ last_event' = "export")
           => export_artifact' = export_artifact]_vars

\* what the last run of the script drew
view == rendered(session_state, last_event = "export")

----------------------------------------------------------------------------
(* Claims about the pages of an unregistered session (under Spec) *)

----------------------------------------------------------------------------
(* Claims about what a submission passes on (under Spec) *)

OptionalFields == {"owner_team", "model_stage", "deployment_region"}

\* C13: an optional attribute (owner_team, model_stage, deployment_region)
\* whose widget is blank at submission is passed to normalisation as None,
\* never as an empty string; a non-blank value is passed as it is.
C13_BlankOptionalIsNone ==
    passed # EmptyDict
        => \A k \in OptionalFields :
               /\ passed[k] # S("")
               /\ IF form_values[k] = ""
                  THEN passed[k] = None
                  ELSE passed[k] = S(form_values[k])

\* a submission with owner_team blank and a model stage selected
C13_Witness ==
    /\ passed # EmptyDict
    /\ form_values["owner_team"] = ""
    /\ passed["owner_team"] = None
    /\ passed["model_stage"] = S("Proof of Concept")

----------------------------------------------------------------------------
(* Claims about the score breakdown (under FnSpec) *)

\* the points of the entries of a breakdown, added up
RECURSIVE SumOfPoints(_)
SumOfPoints(breakdown) ==
    IF breakdown = <<>> THEN 0
    ELSE Head(breakdown).points + SumOfPoints(Tail(breakdown))

\* C14: the breakdown returned by scoring has one entry per risk factor, in
\* the configured factor order, each holding the record's level for the
\* factor and the points the table awards for it, and the points of the
\* entries add up to the total score.
C14_BreakdownPerFactorInOrder ==
    calc_outcome = "returned"
        => /\ Len(risk["score_breakdown"]) = Len(factors)
           /\ \A i \in 1..Len(risk["score_breakdown"]) :
                  LET entry == risk["score_breakdown"][i]
                  IN /\ entry.factor = factors[i]
                     /\ entry.factor \in DOMAIN score_input
                     /\ entry.value = score_input[entry.factor]
                     /\ entry.points =
                            PointsOf(RISK_SCORING_TABLE, entry.factor, entry.value)
           /\ SumOfPoints(risk["score_breakdown"]) = risk["inherent_risk_score"]

----------------------------------------------------------------------------
(* Claims about the outcome of a submission (under Spec) *)

\* C15: a submission with every required field filled that is scored
\* without error sets model_registered, stores the scored record (with the
\* submitted model_name, the score of the submitted levels, a tier and a
\* model_id) in model_details and moves to '2) Risk Score Preview'.
C15_SuccessfulSubmitRegisters ==
    [][(/\ SubmitRan(last_event')
        /\ \A field \in DOMAIN submitted' : submitted'[field] # ""
        /\ last_event' # "submit_value_error")
          => /\ last_event' = "submit_ok"
             /\ model_registered'
             /\ {"model_name", "inherent_risk_score", "proposed_risk_tier",
                 "model_id"} \subseteq DOMAIN model_details'
             /\ model_details'["model_name"] = submitted'["model_name"]
             /\ model_details'["inherent_risk_score"] = ConfiguredSum(submitted')
             /\ model_details'["proposed_risk_tier"] \in {"Low", "Medium", "High"}
             /\ model_details'["model_id"] # None
             /\ current_page' = "2) Risk Score Preview"]_vars

\* the form filled as in test_model_registration_success was submitted
C15_Witness ==
    /\ last_event = "submit_ok"
    /\ model_registered
    /\ current_page = "2) Risk Score Preview"
    /\ model_details["model_name"] = ModelNameText
    /\ model_details["inherent_risk_score"] = 12
    /\ model_details["proposed_risk_tier"] = "High"

----------------------------------------------------------------------------
(* Claims about the assessment held in the session (under Spec) *)

AssessmentKeys ==
    {"inherent_risk_score", "proposed_risk_tier", "score_breakdown",
     "scoring_version"}

\* the assessment part of a record
Assessment(details) ==
    [k \in AssessmentKeys \cap DOMAIN details |-> details[k]]

\* C17: once a model is registered, the score, tier, breakdown and scoring
\* version of model_details change only in a run that stored a successful
\* submission or loaded a valid import; a stored submission carries the
\* current SCORING_VERSION together with a score and breakdown computed
\* from the current table.
C17_AssessmentNotReinterpreted ==
    [][/\ (model_registered
              /\ Assessment(model_details') # Assessment(model_details))
           => last_event' \in {"submit_ok", "import_ok"}
       /\ last_event' = "submit_ok"
           => /\ model_details'["scoring_version"] = SCORING_VERSION
              /\ model_details'["inherent_risk_score"]
                     = ConfiguredSum(model_details')
              /\ SumOfPoints(model_details'["score_breakdown"])
                     = model_details'["inherent_risk_score"]]_vars

\* a record scored under version 0.9 was loaded, taken to the narrative
\* page and exported, and still carries its score and version
C17_Witness ==
    /\ last_event = "export"
    /\ model_details["scoring_version"] = "0.9"
    /\ model_details["inherent_risk_score"] = 7
    /\ model_details["decision_criticality"] = UnknownLevel

----------------------------------------------------------------------------
(* Claims about rejected imports (under Spec) *)

\* a file that cannot be parsed, or whose export_format_version is not
\* 'lab1_export_v1', or whose model_id or model_name is missing or empty
Rejectable(file) ==
    /\ file.present
    /\ \/ ~file.parses
       \/ "export_format_version" \notin DOMAIN file.content
       \/ file.content["export_format_version"] # "lab1_export_v1"
       \/ "model_id" \notin DOMAIN file.content
       \/ file.content["model_id"] \in {None, S("")}
       \/ "model_name" \notin DOMAIN file.content
       \/ file.content["model_name"] = ""

\* C18: uploading such a file is rejected and leaves model_details,
\* model_registered and the three narrative fields as they were.
C18_RejectedImportLeavesState ==
    [][(uploaded_artifact' # uploaded_artifact /\ Rejectable(uploaded_artifact'))
          => /\ last_event' = "import_rejected"
             /\ model_details' = model_details
             /\ model_registered' = model_registered
             /\ owner_risk_narrative' = owner_risk_narrative
             /\ mitigations_proposed' = mitigations_proposed
             /\ open_questions' = open_questions]_vars

\* a file without a model_id was uploaded over a registered record
C18_Witness ==
    /\ last_event = "import_rejected"
    /\ uploaded_artifact.parses
    /\ Held(uploaded_artifact.content, "model_id") = None
    /\ model_registered
    /\ model_details # EmptyDict

----------------------------------------------------------------------------
(* Claims about the levels a submission passes to scoring (under Spec) *)

\* C19: every submission that reaches scoring passes, for each risk factor,
\* a level that is a key of the factor's entry in the scoring table, before
\* and after normalisation; a factor the user did not change is passed with
\* the stored level when the table has it, and with the factor's first
\* configured level when the stored level is absent or not in the table.
C19_FormPassesValidLevels ==
    [][passed' # EmptyDict
          => \A f \in Factors :
                 /\ passed'[f] \in LevelsOf(RISK_SCORING_TABLE, f)
                 /\ register_model_metadata(passed')[f]
                        \in LevelsOf(RISK_SCORING_TABLE, f)
                 /\ f \notin touched'
                        => passed'[f] =
                               IF f \in DOMAIN model_details
                                  /\ model_details[f]
                                         \in LevelsOf(RISK_SCORING_TABLE, f)
                               THEN model_details[f]
                               ELSE RISK_SCORING_TABLE[f][1].level]_vars

\* the record loaded from the file with the level "Critical" and the
\* numeric model_id was submitted with decision_criticality left alone
C19_Witness ==
    /\ last_event = "submit_ok"
    /\ model_details["model_id"] = S("7")
    /\ "decision_criticality" \notin touched
    /\ passed["decision_criticality"] = "Low"
    /\ passed["data_sensitivity"] = "Confidential"

----------------------------------------------------------------------------
(* Claims about the session's invariants (under Spec) *)

\* C21: export_artifact is empty or an envelope whose owner_risk_narrative
\* has at least 50 characters: the export never stores an envelope built
\* from a shorter narrative.
C21_ExportArtifactHasNarrative ==
    export_artifact # EmptyDict
        => Len(export_artifact["owner_risk_narrative"]) >= 50

\* C22: a session starts unregistered, with model_details empty, on
\* '1) Model Registration'; model_registered becomes true only in a run
\* that stored a successful submission or loaded a valid import and never
\* becomes false again; while it is true model_details holds a model_id
\* and a model_name that are not empty.
C22_RegistrationFlag ==
    /\ (~model_registered /\ model_details = EmptyDict
            /\ current_page = "1) Model Registration")
    /\ [][/\ (~model_registered /\ model_registered')
              => last_event' \in {"submit_ok", "import_ok"}
          /\ model_registered => model_registered']_vars
    /\ [](model_registered
            => /\ {"model_id", "model_name"} \subseteq DOMAIN model_details
               /\ model_details["model_id"] \notin {None, S("")}
               /\ model_details["model_name"] # "")

\* a model registered by a submission, back on the registration page
C22_Witness ==
    /\ model_registered
    /\ last_event = "navigate"
    /\ current_page = "1) Model Registration"
    /\ model_details["model_id"] = S("None")
    /\ model_details["model_name"] = ModelNameText
====
